---- MODULE Spec2Model ----
(***************************************************************************)
(* privatemode_addon.cc: the Node addon that loads libprivatemode from the *)
(* path in LIBPRIVATEMODE_PATH, binds PrivatemodeStartProxy and            *)
(* CurrentManifest, and exposes startProxy / getCurrentManifest.           *)
(*                                                                         *)
(* The process holds one global, libraryLoader.  Every runtime context     *)
(* (the main thread, a worker) that loads the addon runs Init; a context   *)
(* calls a facade function through the exports its own Init returned.      *)
(* Contexts run on their own threads, so their steps interleave at every   *)
(* access to the global and to the LibraryLoader object it points to.      *)
(***************************************************************************)
EXTENDS Integers, Sequences, FiniteSets, TLC

VARIABLES
    libraryLoader,  \* the global unique_ptr: 0 (null) or the id of a LibraryLoader
    objects,        \* the LibraryLoader objects ever allocated, by id
    pc,             \* each context's position
    local,          \* each context's locals of the operation it runs (or ran last)
    exports,        \* each context's exports object: the property names set on it
    outcome,        \* what each context's last operation gave the host
    heap,           \* the native library's malloc'd buffers, by address
    memErr,         \* memory errors committed on native buffers
    crashed,        \* the process died (call through a wild pointer, heap corruption)
    nInits,         \* Init runs started, process-wide
    nCalls          \* facade calls started, process-wide

vars == <<libraryLoader, objects, pc, local, exports, outcome, heap, memErr,
          crashed, nInits, nCalls>>

----------------------------------------------------------------------------
(* Bounds *)

MaxInits == 2       \* Init runs, over all contexts
MaxCalls == 2       \* facade calls, over all contexts
MaxAddr == 2        \* addresses the native allocator hands out

Ctx == {"main", "worker"}
ObjId == 1..MaxInits
Addr == 1..MaxAddr

----------------------------------------------------------------------------
(* Text *)

MsgBufferSize == 512

Double(s) == s \o s

\* snprintf(buffer.data(), buffer.size(), ...): at most size-1 characters are
\* written, and the terminator.  s is the fully formatted text.
Snprintf(size, s) == IF Len(s) < size THEN s ELSE SubSeq(s, 1, size - 1)

Contains(s, t) ==
    \E i \in 1..(Len(s) - Len(t) + 1) : SubSeq(s, i, i + Len(t) - 1) = t

StartsWith(s, t) == Len(t) <= Len(s) /\ SubSeq(s, 1, Len(t)) = t

Digit(d) == SubSeq("0123456789", d + 1, d + 1)

RECURSIVE ToDigits(_)
ToDigits(n) == IF n < 10 THEN Digit(n) ELSE ToDigits(n \div 10) \o Digit(n % 10)

\* to_string with the value narrowed to 8 bits first
to_string_narrow(n) == ToDigits(n % 256)

\* std::to_string(GoInt)
to_string(n) == IF n < 0 THEN "-" \o ToDigits(-n) ELSE ToDigits(n)

\* Reading a decimal numeral back: the digit a character stands for (-1 for any
\* other character), the value of a digit string, and whether a string is a
\* numeral without leading zeros.
DigitValue(ch) ==
    IF \E d \in 0..9 : Digit(d) = ch THEN CHOOSE d \in 0..9 : Digit(d) = ch ELSE -1

RECURSIVE NumeralValue(_)
NumeralValue(s) ==
    IF Len(s) = 0 THEN 0
    ELSE NumeralValue(SubSeq(s, 1, Len(s) - 1)) * 10 + DigitValue(SubSeq(s, Len(s), Len(s)))

IsNumeral(s) ==
    /\ Len(s) > 0
    /\ \A i \in 1..Len(s) : DigitValue(SubSeq(s, i, i)) >= 0
    /\ (Len(s) > 1 => SubSeq(s, 1, 1) # "0")

----------------------------------------------------------------------------
(* The platform: environment, loader, artifacts on disk *)

SymStartProxy == "PrivatemodeStartProxy"
SymCurrentManifest == "CurrentManifest"
nullptr == "nullptr"
garbage == "garbage"

\* 512 characters
LongName == Double(Double(Double(Double(Double(Double(Double(Double(Double("a")))))))))

GoodLib == "/opt/libprivatemode.so"
NoStartProxyLib == "/" \o LongName \o "/nostartproxy.so"
NoManifestLib == "/opt/nomanifest.so"
MissingLib == "/opt/missing.so"
LongLib == "/" \o LongName \o ".so"

Paths == {"", GoodLib, NoStartProxyLib, NoManifestLib, MissingLib, LongLib}

\* What std::getenv("LIBPRIVATEMODE_PATH") can return: a null pointer, or a string.
EnvUnset == [set |-> FALSE, value |-> ""]
EnvValues == {EnvUnset} \cup {[set |-> TRUE, value |-> p] : p \in Paths}

NoHandle == "<null>"
MainProgram == "<main program>"

Loadable == {GoodLib, NoStartProxyLib, NoManifestLib}

\* dlopen(path, RTLD_LAZY).  The handle of a loaded artifact is written as its
\* path.  The empty path is platform-dependent: glibc returns the handle of the
\* main program, other loaders fail.
DlopenOutcomes(path) ==
    IF path \in Loadable THEN {path}
    ELSE IF path = "" THEN {NoHandle, MainProgram}
    ELSE {NoHandle}

Exported(handle) ==
    IF handle = GoodLib THEN {SymStartProxy, SymCurrentManifest}
    ELSE IF handle = NoStartProxyLib THEN {SymCurrentManifest}
    ELSE IF handle = NoManifestLib THEN {SymStartProxy}
    ELSE {}

\* dlsym(handle, name): the address of the symbol, or a null pointer.
Dlsym(handle, name) == IF name \in Exported(handle) THEN name ELSE nullptr

\* dlerror() after a failed dlopen / dlsym, in the dynamic loader's wording.
DlopenError(path) == path \o ": cannot open shared object file: No such file or directory"
DlsymError(handle, name) == handle \o ": undefined symbol: " \o name

----------------------------------------------------------------------------
(* The native library's results *)

FailureSentinel == -1
Ports == {7, 8080}
ErrMessages == {"boom", ""}
Manifests == {"v1.2.3", "{}"}

NoBuffer == [state |-> "unallocated", bytes |-> "", copied |-> FALSE, frees |-> 0]

\* malloc in the native library: any address that is not live, its contents set.
Malloc(h, a, s) == [h EXCEPT ![a] = [state |-> "live", bytes |-> s, copied |-> FALSE, frees |-> 0]]

\* What reading the C string at address a can give: its bytes while the buffer
\* is live; anything the allocator left there once it is freed.
CStringAt(h, a) == IF h[a].state = "live" THEN {h[a].bytes} ELSE {h[a].bytes, ""}

MarkCopied(h, a) == [h EXCEPT ![a].copied = (h[a].state = "live")]

\* free(p)
Free(h, a) == [h EXCEPT ![a].state = "freed", ![a].frees = @ + 1]

ReadErr(h, a) == IF h[a].state = "live" THEN {} ELSE {"use_after_free"}
FreeErr(h, a) == IF h[a].state = "live" THEN {} ELSE {"double_free"}

----------------------------------------------------------------------------
(* Host values *)

EmptyObject == [p \in {} |-> TRUE]

\* Napi::Object::Set
ObjSet(o, k, v) == [p \in (DOMAIN o) \cup {k} |-> IF p = k THEN v ELSE o[p]]

NoOutcome == [op |-> "none", kind |-> "none", message |-> "", obj |-> EmptyObject, str |-> ""]

Threw(op, msg, o, s) == [op |-> op, kind |-> "threw", message |-> msg, obj |-> o, str |-> s]
Returned(op, o, s) == [op |-> op, kind |-> "returned", message |-> "", obj |-> o, str |-> s]

----------------------------------------------------------------------------
(* State *)

NoObject == [state |-> "none", startProxyFunc |-> nullptr, currentManifestFunc |-> nullptr]

NoLocal ==
    [op |-> "none", env |-> EnvUnset, libPath |-> "", handle |-> NoHandle, diag |-> "",
     steps |-> <<>>, obj |-> 0, old |-> 0,
     loader |-> 0, func |-> nullptr, r0 |-> 0, r1 |-> 0, native |-> "",
     calls |-> 0, frees |-> 0, failedInits |-> 0]

Init ==
    /\ libraryLoader = 0
    /\ objects = [i \in ObjId |-> NoObject]
    /\ pc = [c \in Ctx |-> "idle"]
    /\ local = [c \in Ctx |-> NoLocal]
    /\ exports = [c \in Ctx |-> {}]
    /\ outcome = [c \in Ctx |-> NoOutcome]
    /\ heap = [a \in Addr |-> NoBuffer]
    /\ memErr = {}
    /\ crashed = FALSE
    /\ nInits = 0
    /\ nCalls = 0

----------------------------------------------------------------------------
(* LibraryLoader::LibraryLoader and Init *)

FacadeNames == {"startProxy", "getCurrentManifest"}

\* getLibraryPath throws
PathMissing(env) == ~env.set

NotSetMessage == "LIBPRIVATEMODE_PATH environment variable not set"

LoadErrorMessage(libPath, diag) ==
    Snprintf(MsgBufferSize, "Failed to load library: " \o libPath \o " (" \o diag \o ")")

SymbolErrorMessage(name, diag) ==
    Snprintf(MsgBufferSize, "Failed to find " \o name \o " function (" \o diag \o ")")

\* The null check of a looked-up symbol left out
SymbolNeverMissing(f) == FALSE

\* if (!startProxyFunc) / if (!currentManifestFunc)
SymbolMissing(f) == f = nullptr

InitErrorMessage(what) == "Failed to initialize library: " \o what

\* The catch block without its return: Init falls through to the exports.Set calls
ExportsWithoutReturn(e) == FacadeNames

\* The exports Init returns from its catch block.
ExportsAfterCatch(e) == e

\* The value of libraryLoader after a construction that threw.
LoaderAfterThrow(ptr) == ptr

\* The constructor throws: make_unique releases the object, the assignment never
\* happens, Init's catch block raises the JavaScript error and returns exports.
InitThrows(c, l, what) ==
    /\ objects' = [objects EXCEPT ![l.obj].state = "discarded"]
    /\ libraryLoader' = LoaderAfterThrow(libraryLoader)
    /\ local' = [local EXCEPT ![c] = l]
    /\ exports' = [exports EXCEPT ![c] = ExportsAfterCatch(@)]
    /\ outcome' = [outcome EXCEPT ![c] = Threw("Init", InitErrorMessage(what), EmptyObject, "")]
    /\ pc' = [pc EXCEPT ![c] = "idle"]

CanLoad(c) == ~crashed /\ pc[c] = "idle" /\ exports[c] = {} /\ nInits < MaxInits

\* The host loads the addon in context c: Init runs, make_unique allocates the
\* LibraryLoader with both members null, the constructor calls getLibraryPath.
InitGetLibraryPath(c) ==
    /\ CanLoad(c)
    /\ nInits' = nInits + 1
    /\ \E env \in EnvValues :
         LET l == [NoLocal EXCEPT !.op = "Init", !.env = env, !.obj = nInits + 1,
                                  !.steps = <<"getenv">>]
         IN  IF PathMissing(env)
             THEN InitThrows(c, l, NotSetMessage)
             ELSE /\ objects' = [objects EXCEPT ![l.obj] = [NoObject EXCEPT !.state = "constructing"]]
                  /\ local' = [local EXCEPT ![c] = [l EXCEPT !.libPath = env.value]]
                  /\ pc' = [pc EXCEPT ![c] = "dlopen"]
                  /\ outcome' = [outcome EXCEPT ![c] = NoOutcome]
                  /\ UNCHANGED <<libraryLoader, exports>>
    /\ UNCHANGED <<heap, memErr, crashed, nCalls>>

InitDlopen(c) ==
    /\ ~crashed /\ pc[c] = "dlopen"
    /\ \E h \in DlopenOutcomes(local[c].libPath) :
         LET l == [local[c] EXCEPT !.handle = h, !.steps = Append(@, "dlopen")]
         IN  IF h = NoHandle
             THEN LET d == DlopenError(l.libPath)
                  IN  InitThrows(c, [l EXCEPT !.diag = d], LoadErrorMessage(l.libPath, d))
             ELSE /\ local' = [local EXCEPT ![c] = l]
                  /\ pc' = [pc EXCEPT ![c] = "dlsym_start_proxy"]
                  /\ UNCHANGED <<libraryLoader, objects, exports, outcome>>
    /\ UNCHANGED <<heap, memErr, crashed, nInits, nCalls>>

InitDlsymStartProxy(c) ==
    /\ ~crashed /\ pc[c] = "dlsym_start_proxy"
    /\ LET f == Dlsym(local[c].handle, SymStartProxy)
           l == [local[c] EXCEPT !.steps = Append(@, "dlsym PrivatemodeStartProxy")]
       IN  IF SymbolMissing(f)
           THEN LET d == DlsymError(l.handle, SymStartProxy)
                IN  InitThrows(c, [l EXCEPT !.diag = d], SymbolErrorMessage(SymStartProxy, d))
           ELSE /\ objects' = [objects EXCEPT ![l.obj].startProxyFunc = f]
                /\ local' = [local EXCEPT ![c] = l]
                /\ pc' = [pc EXCEPT ![c] = "dlsym_current_manifest"]
                /\ UNCHANGED <<libraryLoader, exports, outcome>>
    /\ UNCHANGED <<heap, memErr, crashed, nInits, nCalls>>

InitDlsymCurrentManifest(c) ==
    /\ ~crashed /\ pc[c] = "dlsym_current_manifest"
    /\ LET f == Dlsym(local[c].handle, SymCurrentManifest)
           l == [local[c] EXCEPT !.steps = Append(@, "dlsym CurrentManifest")]
       IN  IF SymbolMissing(f)
           THEN LET d == DlsymError(l.handle, SymCurrentManifest)
                IN  InitThrows(c, [l EXCEPT !.diag = d], SymbolErrorMessage(SymCurrentManifest, d))
           ELSE /\ objects' = [objects EXCEPT ![l.obj].currentManifestFunc = f,
                                               ![l.obj].state = "constructed"]
                /\ local' = [local EXCEPT ![c] = l]
                /\ pc' = [pc EXCEPT ![c] = "assign_load"]
                /\ UNCHANGED <<libraryLoader, exports, outcome>>
    /\ UNCHANGED <<heap, memErr, crashed, nInits, nCalls>>

\* libraryLoader = std::make_unique<LibraryLoader>(): unique_ptr's move assignment
\* is reset(release()), which reads the old pointer, stores the new one and then
\* deletes the old object.  Nothing orders these against another thread.
InitAssignLoad(c) ==
    /\ ~crashed /\ pc[c] = "assign_load"
    /\ local' = [local EXCEPT ![c].old = libraryLoader]
    /\ pc' = [pc EXCEPT ![c] = "assign_store"]
    /\ UNCHANGED <<libraryLoader, objects, exports, outcome, heap, memErr, crashed, nInits, nCalls>>

InitAssignStore(c) ==
    /\ ~crashed /\ pc[c] = "assign_store"
    /\ libraryLoader' = local[c].obj
    /\ objects' = [objects EXCEPT ![local[c].obj].state = "installed"]
    /\ pc' = [pc EXCEPT ![c] = "assign_delete"]
    /\ UNCHANGED <<local, exports, outcome, heap, memErr, crashed, nInits, nCalls>>

\* The old object is deleted (deleting it a second time corrupts the heap: the
\* process may die or go on), then Init sets the two functions on exports.
InitDeleteOldAndExport(c) ==
    /\ ~crashed /\ pc[c] = "assign_delete"
    /\ LET old == local[c].old
       IN  /\ objects' = IF old = 0 THEN objects ELSE [objects EXCEPT ![old].state = "deleted"]
           /\ IF old # 0 /\ objects[old].state = "deleted"
              THEN crashed' \in BOOLEAN
              ELSE crashed' = FALSE
    /\ exports' = [exports EXCEPT ![c] = FacadeNames]
    /\ outcome' = [outcome EXCEPT ![c] = Returned("Init", EmptyObject, "")]
    /\ pc' = [pc EXCEPT ![c] = "idle"]
    /\ UNCHANGED <<libraryLoader, local, heap, memErr, nInits, nCalls>>

----------------------------------------------------------------------------
(* The facade: StartProxy and GetCurrentManifest *)

NotLoadedMessage == "Library not loaded"

\* The facade without its null check
GuardOmitted(ptr) == FALSE

\* if (!libraryLoader)
NotLoaded(ptr) == ptr = 0

\* libraryLoader->getStartProxyFunc() / getCurrentManifestFunc() through the
\* pointer the call loaded: the member while the object is the installed one;
\* once another Init has deleted it (or the pointer is null) the read is of
\* released memory and may give the old member or anything else.
FuncAt(ptr, member) ==
    IF ptr = 0 THEN {garbage}
    ELSE IF objects[ptr].state = "installed" THEN {objects[ptr][member]}
    ELSE {objects[ptr][member], garbage}

\* The copy without the free
CopyWithoutFree(h, a) ==
    {[str |-> s, heap |-> MarkCopied(h, a), err |-> ReadErr(h, a), frees |-> 0] : s \in CStringAt(h, a)}

\* The free before the copy
FreeThenCopy(h, a) ==
    {[str |-> s, heap |-> MarkCopied(Free(h, a), a),
      err |-> FreeErr(h, a) \cup ReadErr(Free(h, a), a), frees |-> 1] : s \in CStringAt(Free(h, a), a)}

\* Napi::String::New(env, p) followed by free(p): the host string is a copy of
\* the C string at p, made before the buffer is released.  The possible results,
\* each with the heap afterwards, the memory errors committed and the number of
\* free() calls made.
MarshalCString(h, a) ==
    {[str |-> s, heap |-> Free(MarkCopied(h, a), a),
      err |-> ReadErr(h, a) \cup FreeErr(h, a), frees |-> 1] : s \in CStringAt(h, a)}

\* The failure object without its port
FailureObjectNoPort(msg) ==
    ObjSet(ObjSet(EmptyObject, "success", FALSE), "error", msg)

\* The object StartProxy builds when result.r0 == -1
FailureObject(msg) ==
    ObjSet(ObjSet(ObjSet(EmptyObject, "success", FALSE), "error", msg), "port", "-1")

\* ... and otherwise
SuccessObject(r0) ==
    ObjSet(ObjSet(EmptyObject, "success", TRUE), "port", to_string(r0))

CanCall(c) == ~crashed /\ pc[c] = "idle" /\ nCalls < MaxCalls

FailedInits == Cardinality({i \in ObjId : objects[i].state = "discarded"})

\* The locals of a facade call as it starts.  failedInits records, for the
\* properties below, how many Init runs had failed by then.
EntryLocal(c, op) == [NoLocal EXCEPT !.op = op, !.failedInits = FailedInits]

FacadeEnter(c, op, next) ==
    /\ CanCall(c)
    /\ nCalls' = nCalls + 1
    /\ IF NotLoaded(libraryLoader)
       THEN /\ outcome' = [outcome EXCEPT ![c] =
                   Threw(op, NotLoadedMessage, EmptyObject, "")]
            /\ local' = [local EXCEPT ![c] = EntryLocal(c, op)]
            /\ pc' = [pc EXCEPT ![c] = "idle"]
       ELSE /\ outcome' = [outcome EXCEPT ![c] = NoOutcome]
            /\ local' = [local EXCEPT ![c] = [EntryLocal(c, op) EXCEPT !.loader = libraryLoader]]
            /\ pc' = [pc EXCEPT ![c] = next]
    /\ UNCHANGED <<libraryLoader, objects, exports, heap, memErr, crashed, nInits>>

\* Calling through a pointer that is not the entry point kills the process.
WildCall(c) ==
    /\ crashed' = TRUE
    /\ pc' = [pc EXCEPT ![c] = "crashed"]
    /\ UNCHANGED <<local, heap>>

StartProxyEnter(c) == FacadeEnter(c, "startProxy", "start_proxy_call")

\* const PrivatemodeStartProxy_return result = func();
StartProxyCall(c) ==
    /\ ~crashed /\ pc[c] = "start_proxy_call"
    /\ \E f \in FuncAt(local[c].loader, "startProxyFunc") :
         IF f # SymStartProxy
         THEN WildCall(c)
         ELSE /\ crashed' = FALSE
              /\ pc' = [pc EXCEPT ![c] = "start_proxy_marshal"]
              /\ \/ \E a \in Addr, m \in ErrMessages :
                      /\ heap[a].state # "live"
                      /\ heap' = Malloc(heap, a, m)
                      /\ local' = [local EXCEPT ![c].func = f, ![c].r0 = FailureSentinel,
                                                ![c].r1 = a, ![c].native = m, ![c].calls = @ + 1]
                 \/ \E p \in Ports :
                      /\ heap' = heap
                      /\ local' = [local EXCEPT ![c].func = f, ![c].r0 = p,
                                                ![c].r1 = 0, ![c].calls = @ + 1]
    /\ UNCHANGED <<libraryLoader, objects, exports, outcome, memErr, nInits, nCalls>>

StartProxyMarshal(c) ==
    /\ ~crashed /\ pc[c] = "start_proxy_marshal"
    /\ IF local[c].r0 = FailureSentinel
       THEN \E m \in MarshalCString(heap, local[c].r1) :
              /\ outcome' = [outcome EXCEPT ![c] = Returned("startProxy", FailureObject(m.str), "")]
              /\ heap' = m.heap
              /\ memErr' = memErr \cup m.err
              /\ local' = [local EXCEPT ![c].frees = @ + m.frees]
       ELSE /\ outcome' = [outcome EXCEPT ![c] = Returned("startProxy", SuccessObject(local[c].r0), "")]
            /\ UNCHANGED <<heap, memErr, local>>
    /\ pc' = [pc EXCEPT ![c] = "idle"]
    /\ UNCHANGED <<libraryLoader, objects, exports, crashed, nInits, nCalls>>

GetCurrentManifestEnter(c) == FacadeEnter(c, "getCurrentManifest", "manifest_call")

\* char *const result = func();
GetCurrentManifestCall(c) ==
    /\ ~crashed /\ pc[c] = "manifest_call"
    /\ \E f \in FuncAt(local[c].loader, "currentManifestFunc") :
         IF f # SymCurrentManifest
         THEN WildCall(c)
         ELSE /\ crashed' = FALSE
              /\ pc' = [pc EXCEPT ![c] = "manifest_marshal"]
              /\ \E a \in Addr, m \in Manifests :
                   /\ heap[a].state # "live"
                   /\ heap' = Malloc(heap, a, m)
                   /\ local' = [local EXCEPT ![c].func = f, ![c].r1 = a,
                                             ![c].native = m, ![c].calls = @ + 1]
    /\ UNCHANGED <<libraryLoader, objects, exports, outcome, memErr, nInits, nCalls>>

GetCurrentManifestMarshal(c) ==
    /\ ~crashed /\ pc[c] = "manifest_marshal"
    /\ \E m \in MarshalCString(heap, local[c].r1) :
         /\ outcome' = [outcome EXCEPT ![c] = Returned("getCurrentManifest", EmptyObject, m.str)]
         /\ heap' = m.heap
         /\ memErr' = memErr \cup m.err
         /\ local' = [local EXCEPT ![c].frees = @ + m.frees]
    /\ pc' = [pc EXCEPT ![c] = "idle"]
    /\ UNCHANGED <<libraryLoader, objects, exports, crashed, nInits, nCalls>>

\* The host reaches a facade function only as a property of the exports object
\* that Init returned to it.
HostStartProxy(c) == "startProxy" \in exports[c] /\ StartProxyEnter(c)
HostGetCurrentManifest(c) == "getCurrentManifest" \in exports[c] /\ GetCurrentManifestEnter(c)

----------------------------------------------------------------------------
(* Specifications *)

InitStep(c) ==
    \/ InitGetLibraryPath(c)
    \/ InitDlopen(c)
    \/ InitDlsymStartProxy(c)
    \/ InitDlsymCurrentManifest(c)
    \/ InitAssignLoad(c)
    \/ InitAssignStore(c)
    \/ InitDeleteOldAndExport(c)

CallStep(c) ==
    \/ StartProxyCall(c)
    \/ StartProxyMarshal(c)
    \/ GetCurrentManifestCall(c)
    \/ GetCurrentManifestMarshal(c)

\* The addon in a host: facade functions are called through exports.
Next ==
    \E c \in Ctx :
        \/ InitStep(c)
        \/ HostStartProxy(c)
        \/ HostGetCurrentManifest(c)
        \/ CallStep(c)

Spec == Init /\ [][Next]_vars

\* The facade functions as units: StartProxy and GetCurrentManifest are entered
\* in every state of the bridge, whether or not an Init exported them.
NextUnit ==
    \E c \in Ctx :
        \/ InitStep(c)
        \/ StartProxyEnter(c)
        \/ GetCurrentManifestEnter(c)
        \/ CallStep(c)

SpecUnit == Init /\ [][NextUnit]_vars

----------------------------------------------------------------------------
(* Properties *)

FacadeOps == {"startProxy", "getCurrentManifest"}
InFlight == {"start_proxy_call", "start_proxy_marshal", "manifest_call", "manifest_marshal"}
Marshalling == {"start_proxy_marshal", "manifest_marshal"}
Assigning == {"assign_load", "assign_store", "assign_delete"}
InitOrder == <<"getenv", "dlopen", "dlsym PrivatemodeStartProxy", "dlsym CurrentManifest">>

IsPrefix(s, t) == Len(s) <= Len(t) /\ SubSeq(t, 1, Len(s)) = s

\* A facade call of context c that found the bridge ready has returned.
Completed(c, op) == pc[c] = "idle" /\ local[c].op = op /\ local[c].loader # 0

\* An Init run of context c has ended.
InitEnded(c) == pc[c] = "idle" /\ local[c].op = "Init"

Installed == {i \in ObjId : objects[i].state \in {"installed", "deleted"}}

\* C1: while no initialization has completed successfully (libraryLoader is
\* null), every entry into StartProxy or GetCurrentManifest ends at once with
\* the error "Library not loaded" in the calling context, invokes no native
\* entry point and allocates or releases nothing, and runs no step of
\* initialization: the global, the LibraryLoader objects, the exports and the
\* number of Init runs are as before, and no other context is touched.
C1_NotReadyCallsFail ==
    [][(nCalls' # nCalls /\ libraryLoader = 0) =>
          \E c \in Ctx :
              /\ pc[c] = "idle" /\ pc'[c] = "idle"
              /\ local'[c].op \in FacadeOps
              /\ outcome'[c] = Threw(local'[c].op, "Library not loaded", EmptyObject, "")
              /\ local'[c].calls = 0 /\ local'[c].frees = 0 /\ local'[c].steps = <<>>
              /\ \A d \in Ctx \ {c} :
                    pc'[d] = pc[d] /\ local'[d] = local[d] /\ outcome'[d] = outcome[d]
              /\ UNCHANGED <<libraryLoader, objects, exports, heap, memErr, nInits>>]_vars

\* Both contexts called a facade function after a failed Init, in either order
\* of the two functions, and both calls gave the error.
C1_Witness ==
    /\ libraryLoader = 0
    /\ \A c \in Ctx :
          /\ pc[c] = "idle" /\ local[c].op \in FacadeOps /\ local[c].failedInits >= 1
          /\ outcome[c].kind = "threw" /\ outcome[c].message = "Library not loaded"
    /\ local["main"].op # local["worker"].op

\* C2: a StartProxy call on a ready bridge whose native call returned r0 = -1
\* with message m returns, without throwing, the object
\* {success: false, port: "-1", error: m}, and m's buffer is released at most once.
C2_FailureIsStructured ==
    \A c \in Ctx :
        (Completed(c, "startProxy") /\ local[c].r0 = -1) =>
            /\ outcome[c] = Returned("startProxy",
                                     [success |-> FALSE, port |-> "-1", error |-> local[c].native], "")
            /\ local[c].frees <= 1
            /\ "double_free" \notin memErr

C2_Witness ==
    \E c \in Ctx :
        /\ Completed(c, "startProxy") /\ local[c].r0 = -1
        /\ outcome[c].obj.error = "boom"
        /\ heap[local[c].r1].state = "freed"

\* C3: a StartProxy call on a ready bridge whose native call returned a
\* positive integer p returns {success: true, port: the decimal numeral of p}
\* with no error property, and releases no native buffer.
C3_SuccessIsPort ==
    \A c \in Ctx :
        (Completed(c, "startProxy") /\ local[c].r0 > 0) =>
            /\ outcome[c].kind = "returned"
            /\ DOMAIN outcome[c].obj = {"success", "port"}
            /\ outcome[c].obj.success = TRUE
            /\ IsNumeral(outcome[c].obj.port)
            /\ NumeralValue(outcome[c].obj.port) = local[c].r0
            /\ local[c].frees = 0

C3_Witness ==
    \E c \in Ctx :
        /\ Completed(c, "startProxy") /\ local[c].r0 = 8080
        /\ outcome[c].obj.port = "8080"

\* C4: a native buffer is never read or released after its release, a released
\* buffer was copied into a host string first and released exactly once, and a
\* buffer is live only while the call it was returned to is still marshalling
\* it (so every call that returns has released its buffer: no leak).
C4_BuffersReleasedOnce ==
    /\ memErr = {}
    /\ \A a \in Addr :
          /\ heap[a].state = "freed" => (heap[a].copied /\ heap[a].frees = 1)
          /\ heap[a].state = "live" =>
                (crashed \/ \E c \in Ctx : pc[c] \in Marshalling /\ local[c].r1 = a)
    /\ \A c \in Ctx :
          (Completed(c, "startProxy") /\ local[c].r0 = -1) \/ Completed(c, "getCurrentManifest")
              => local[c].frees = 1

\* A failed StartProxy and a GetCurrentManifest have both returned, each with
\* its buffer copied and released once.
C4_Witness ==
    \E c, d \in Ctx :
        /\ Completed(c, "startProxy") /\ local[c].r0 = -1
        /\ Completed(d, "getCurrentManifest")
        /\ local[c].r1 # local[d].r1
        /\ \A a \in {local[c].r1, local[d].r1} :
              heap[a].state = "freed" /\ heap[a].copied /\ heap[a].frees = 1

\* C5: an Init run that finds LIBPRIVATEMODE_PATH absent or empty ends with the
\* error "... variable not set" having attempted no library open, and installs
\* no bridge.
C5_UnsetOrEmptyIsConfigError ==
    \A c \in Ctx :
        (local[c].op = "Init" /\ (~local[c].env.set \/ local[c].env.value = "")) =>
            /\ pc[c] = "idle"
            /\ local[c].steps = <<"getenv">>
            /\ outcome[c].kind = "threw"
            /\ Contains(outcome[c].message, "variable not set")
            /\ objects[local[c].obj].state = "discarded"

\* C6: whenever libraryLoader is non-null, both function pointers of the object
\* it points to are non-null; and an Init run whose opened library lacks
\* PrivatemodeStartProxy or CurrentManifest never reaches the assignment, ends
\* with an error naming the first missing entry point, exports nothing and
\* leaves its LibraryLoader uninstalled.
C6_AllOrNothing ==
    /\ libraryLoader # 0 =>
          /\ objects[libraryLoader].startProxyFunc # nullptr
          /\ objects[libraryLoader].currentManifestFunc # nullptr
    /\ \A c \in Ctx :
          LET l == local[c]
              missing == {SymStartProxy, SymCurrentManifest} \ Exported(l.handle)
              first == IF SymStartProxy \in missing THEN SymStartProxy ELSE SymCurrentManifest
          IN  (l.op = "Init" /\ l.handle # NoHandle /\ missing # {}) =>
                 /\ pc[c] \notin Assigning
                 /\ libraryLoader # l.obj
                 /\ pc[c] = "idle" =>
                       /\ outcome[c].kind = "threw"
                       /\ Contains(outcome[c].message, "Failed to find " \o first \o " function")
                       /\ exports[c] = {}
                       /\ objects[l.obj].state = "discarded"

\* One context's Init failed on the missing CurrentManifest while the bridge is
\* ready through the other context's Init.
C6_Witness ==
    \E c, d \in Ctx :
        /\ InitEnded(c) /\ local[c].handle = NoManifestLib
        /\ Contains(outcome[c].message, "Failed to find CurrentManifest function")
        /\ libraryLoader # 0 /\ exports[d] = FacadeNames

\* C7: the bridge is installed at most once in the process, and no facade call
\* in flight holds a LibraryLoader other than the installed one.
C7_InitializedOnce ==
    /\ Cardinality(Installed) <= 1
    /\ \A c \in Ctx :
          pc[c] \in InFlight => objects[local[c].loader].state = "installed"

\* C8: a GetCurrentManifest call on a ready bridge returns exactly the string
\* its native call produced, having made one native call and one release of
\* that call's buffer; the value is a copy, so it stays what it was when the
\* native side later frees or reuses the buffer.
C8_ManifestIsCopy ==
    \A c \in Ctx :
        Completed(c, "getCurrentManifest") =>
            /\ outcome[c] = Returned("getCurrentManifest", EmptyObject, local[c].native)
            /\ local[c].calls = 1
            /\ local[c].frees = 1
            /\ "use_after_free" \notin memErr

\* Two calls returned different manifests through the same native address: the
\* first value is held by the host while the buffer it came from was reused.
C8_Witness ==
    \E c, d \in Ctx :
        /\ Completed(c, "getCurrentManifest") /\ Completed(d, "getCurrentManifest")
        /\ outcome[c].str = "v1.2.3" /\ outcome[d].str = "{}"
        /\ local[c].r1 = local[d].r1
        /\ heap[local[c].r1].bytes = "{}"

\* C9: an Init run takes its steps in the order getenv, dlopen, dlsym
\* PrivatemodeStartProxy, dlsym CurrentManifest and stops at the first that
\* fails; when the open fails no symbol is looked up, no bridge is installed by
\* the run, and the error thrown starts with "Failed to initialize library: "
\* and carries the library path and the loader's diagnostic.
C9_OrderedAndDiagnosed ==
    \A c \in Ctx :
        LET l == local[c] IN
        l.op = "Init" =>
            /\ IsPrefix(l.steps, InitOrder)
            /\ (pc[c] = "idle" /\ outcome[c].kind = "threw") => objects[l.obj].state = "discarded"
            /\ (pc[c] = "idle" /\ Len(l.steps) = 2 /\ l.handle = NoHandle) =>
                  /\ outcome[c].kind = "threw"
                  /\ exports[c] = {}
                  /\ StartsWith(outcome[c].message, "Failed to initialize library: ")
                  /\ Contains(outcome[c].message, l.libPath)
                  /\ Contains(outcome[c].message, l.diag)

\* C10: an ended Init run has exported the facade functions exactly when its
\* own construction succeeded; libraryLoader is null exactly when no run has
\* installed a LibraryLoader, and otherwise points to the installed one; so a
\* context that can call a facade function finds libraryLoader non-null, and no
\* facade call ever ends in the "Library not loaded" error.
C10_ExportedImpliesLoaded ==
    /\ \A c \in Ctx :
          /\ InitEnded(c) =>
                /\ (exports[c] = FacadeNames) = (outcome[c].kind = "returned")
                /\ (exports[c] = FacadeNames) = (local[c].obj \in Installed)
          /\ exports[c] \in {{}, FacadeNames}
          /\ exports[c] # {} => libraryLoader # 0
          /\ ~(outcome[c].op \in FacadeOps /\ outcome[c].kind = "threw")
    /\ (libraryLoader = 0) = (Installed = {})
    /\ libraryLoader # 0 => objects[libraryLoader].state = "installed"

\* One context has called through its exports and got a value while the other
\* context's Init has failed and exported nothing.
C10_Witness ==
    \E c, d \in Ctx :
        /\ Completed(c, "getCurrentManifest") /\ outcome[c].kind = "returned"
        /\ InitEnded(d) /\ outcome[d].kind = "threw" /\ exports[d] = {}

====
